---------------------------- MODULE Spec2Model ----------------------------
(***************************************************************************)
(* A model of src/app.py: the identifier resolver, the API pager, the      *)
(* record normaliser, the aggregator and the orchestration in main().      *)
(*                                                                         *)
(* Python values are carried with their dynamic type: a value is a record  *)
(* [t |-> tag, v |-> payload] with tag "str" (payload: a sequence of       *)
(* one-character strings), "int", "list" (a sequence of values), "dict"    *)
(* (a record of values) and "bigint" (an integer too large for             *)
(* datetime.fromtimestamp; its digits are not carried).  A key that a dict *)
(* does not hold is the value Absent.                                      *)
(***************************************************************************)
EXTENDS Integers, Sequences, FiniteSets, TLC

VARIABLES
    pc,            \* position of the modelled code
    cfg,           \* the sidebar inputs of main(): input method, cap, toggles
    limit,         \* fetch_reviews_api: parameter limit
    offset,        \* fetch_reviews_api: local offset
    all_reviews,   \* fetch_reviews_api: local all_reviews
    requests,      \* the offsets of the GET requests issued, in order
    responses,     \* the response each finished request got, in order
    reviews,       \* main(): local reviews (the value fetch_reviews_api returned)
    cancelFlag,    \* the user's wish to cancel (environment)
    seleniumCalls, \* the max_reviews argument of each fetch_reviews_selenium call
    raw,           \* parse_review: argument rating_data
    parsed,        \* parse_review: returned value
    df,            \* main(): reviews_df
    analysis,      \* analyze_reviews: returned dict
    trendShown,    \* main(): the daily trend drawn by lines 563-573 (or NoTrend)
    url,           \* extract_ids_from_url: argument url
    page,          \* what GET url answers: a body, or a raised failure
    fetches,       \* number of GET url requests extract_ids_from_url issued
    ids,           \* extract_ids_from_url: returned pair
    progress_bar,  \* fetch_reviews_api: the percents progress_bar showed, in order
    status_text,   \* fetch_reviews_api: the review counts status_text showed, in order
    session_df,    \* st.session_state.reviews_df (NoSession when the key is absent)
    driver         \* fetch_reviews_selenium: the browser session ("none", "open", "closed")

vars == <<pc, cfg, limit, offset, all_reviews, requests, responses, reviews,
          cancelFlag, seleniumCalls, raw, parsed, df, analysis, trendShown,
          url, page, fetches, ids, progress_bar, status_text, session_df, driver>>

runVars     == <<cfg, limit, offset, all_reviews, requests, responses, reviews,
                 cancelFlag, seleniumCalls, progress_bar, status_text,
                 session_df, driver>>
shownVars   == <<progress_bar, status_text>>
sessionVars == <<session_df, driver>>
parseVars   == <<raw, parsed>>
analyzeVars == <<df, analysis, trendShown>>
resolveVars == <<url, page, fetches, ids>>

(***************************************************************************)
(* Python values                                                           *)
(***************************************************************************)
Absent == [t |-> "absent"]
None   == [t |-> "none"]
PyStr(s)  == [t |-> "str", v |-> s]
PyInt(n)  == [t |-> "int", v |-> n]
PyList(l) == [t |-> "list", v |-> l]
PyDict(d) == [t |-> "dict", v |-> d]
BigInt  == [t |-> "bigint"]

EmptyStr == PyStr(<< >>)
NullStr  == PyStr(<<"n", "u", "l", "l">>)

\* dict.get(key, default) on a record whose missing keys hold Absent
Get(d, key, default) == IF d[key] = Absent THEN default ELSE d[key]

\* Python truthiness (the "not x" of lines 264, 268, 276, 281, 291, 295)
Truthy(x) ==
    CASE x.t = "str"    -> x.v # << >>
      [] x.t = "int"    -> x.v # 0
      [] x.t = "list"   -> x.v # << >>
      [] x.t = "dict"   -> \E key \in DOMAIN x.v : x.v[key] # Absent
      [] x.t = "bigint" -> TRUE
      [] OTHER          -> FALSE

\* s.split(sep)[-1]: what follows the last sep
RECURSIVE LastSegment(_, _)
LastSegment(s, sep) ==
    IF \A i \in 1..Len(s) : s[i] # sep THEN s
    ELSE LastSegment(Tail(s), sep)

\* s.split(sep)[0]: what precedes the first sep
RECURSIVE FirstSegment(_, _)
FirstSegment(s, sep) ==
    IF s = << >> \/ Head(s) = sep THEN << >>
    ELSE <<Head(s)>> \o FirstSegment(Tail(s), sep)

DigitChar == <<"0", "1", "2", "3", "4", "5", "6", "7", "8", "9">>

\* format(n, "04d") for 0 <= n < 10000
Format04d(n) ==
    << DigitChar[((n \div 1000) % 10) + 1], DigitChar[((n \div 100) % 10) + 1],
       DigitChar[((n \div 10) % 10) + 1],   DigitChar[(n % 10) + 1] >>

\* hash(x) for the values cmtid takes: hash(int) is the int, hash('') is 0
Hash(x) == IF x.t = "int" THEN x.v ELSE 0

HashModulus == 10000

\* the literal prefix of line 269
UserPrefix == <<"u", "s", "e", "r", "_">>

(***************************************************************************)
(* parse_review (lines 259-315).  Each step yields [ok, val]; ok = FALSE   *)
(* is a raised exception, which the except of line 313 turns into None.    *)
(***************************************************************************)
Ok(val) == [ok |-> TRUE, val |-> val]
Raise   == [ok |-> FALSE, val |-> None]

\* lines 263-265
PrimaryUsername(rating_data) ==
    LET username == Get(rating_data, "author_username", EmptyStr)
    IN  IF ~Truthy(username) \/ username = NullStr
        THEN LET portrait == Get(rating_data, "author_portrait", EmptyStr)
             IN  IF portrait.t # "str" THEN Raise
                 ELSE Ok(PyStr(FirstSegment(LastSegment(portrait.v, "/"), ".")))
        ELSE Ok(username)

SynthUsername_Skip(username, rating_data) == Ok(username)

\* lines 268-269
SynthUsername(username, rating_data) ==
    IF ~Truthy(username)
    THEN Ok(PyStr(UserPrefix \o Format04d(Hash(Get(rating_data, "cmtid", EmptyStr)) % HashModulus)))
    ELSE IF username.t \notin {"str", "list"} THEN Raise
    ELSE IF Len(username.v) < 2
    THEN Ok(PyStr(UserPrefix \o Format04d(Hash(Get(rating_data, "cmtid", EmptyStr)) % HashModulus)))
    ELSE Ok(username)

\* lines 275-277
CommentOf(rating_data) ==
    LET comment == Get(rating_data, "comment", EmptyStr)
    IN  IF ~Truthy(comment) \/ comment = NullStr
        THEN LET dr == Get(rating_data, "detailed_rating", None)
             IN  IF ~Truthy(dr) THEN Ok(EmptyStr)
                 ELSE IF dr.t # "list" THEN Raise
                 ELSE IF dr.v[1].t # "dict" THEN Raise
                 ELSE Ok(Get(dr.v[1].v, "comment", EmptyStr))
        ELSE Ok(comment)

SecondsPerMinute == 60

\* lines 280-287: '%Y-%m-%d %H:%M' keeps the minute and drops the seconds; a
\* ctime that fromtimestamp rejects is kept as its digits, str(ctime)
TimeOf(rating_data) ==
    LET ctime == Get(rating_data, "ctime", PyInt(0))
    IN  IF Truthy(ctime)
        THEN IF ctime.t = "int"
             THEN [k |-> "ymdhm", n |-> ctime.v \div SecondsPerMinute]
             ELSE [k |-> "digits", n |-> 0]
        ELSE [k |-> "unknown", n |-> 0]

\* lines 290-291
VariationOf(rating_data) ==
    LET product_items == Get(rating_data, "product_items", PyList(<<PyDict([model_name |-> Absent])>>))
    IN  IF ~Truthy(product_items) THEN Ok(EmptyStr)
        ELSE IF product_items.t # "list" THEN Raise
        ELSE IF product_items.v[1].t # "dict" THEN Raise
        ELSE Ok(Get(product_items.v[1].v, "model_name", EmptyStr))

\* lines 294-296
SellerResponseOf(rating_data) ==
    LET reply == Get(rating_data, "seller_reply", None)
    IN  IF ~Truthy(reply) THEN Ok(EmptyStr)
        ELSE IF reply.t # "dict" THEN Raise
        ELSE Ok(Get(reply.v, "comment", EmptyStr))

\* line 309
ImagesCountOf(rating_data) ==
    LET images == Get(rating_data, "images", PyList(<< >>))
    IN  IF images.t \notin {"list", "str"} THEN Raise
        ELSE Ok(PyInt(Len(images.v)))

\* lines 259-315
parse_review(rating_data) ==
    LET u1 == PrimaryUsername(rating_data)
        u2 == IF u1.ok THEN SynthUsername(u1.val, rating_data) ELSE Raise
        c  == CommentOf(rating_data)
        va == VariationOf(rating_data)
        sr == SellerResponseOf(rating_data)
        im == ImagesCountOf(rating_data)
    IN  IF u2.ok /\ c.ok /\ va.ok /\ sr.ok /\ im.ok
        THEN [username        |-> u2.val,
              time            |-> TimeOf(rating_data),
              rating          |-> Get(rating_data, "rating_star", PyInt(0)),
              comment         |-> c.val,
              variation       |-> va.val,
              seller_response |-> sr.val,
              like_count      |-> Get(rating_data, "like_count", PyInt(0)),
              images_count    |-> im.val,
              source          |-> "api"]
        ELSE None

(***************************************************************************)
(* The raw records of the pager's pages.  A raw record holds the eleven    *)
(* keys parse_review reads.                                                *)
(***************************************************************************)
NoFields ==
    [author_username |-> Absent, author_portrait |-> Absent, cmtid |-> Absent,
     rating_star |-> Absent, comment |-> Absent, detailed_rating |-> Absent,
     ctime |-> Absent, product_items |-> Absent, seller_reply |-> Absent,
     like_count |-> Absent, images |-> Absent]

StarCount == 5

\* a record parse_review normalises: record number id of the feed
GoodRaw(id) ==
    [NoFields EXCEPT !.author_username = PyStr(<<"a", "b">>),
                     !.cmtid = PyInt(id),
                     !.rating_star = PyInt(id % (StarCount + 1)),
                     !.comment = PyStr(<<"o", "k">>)]

\* a record parse_review fails on: the portrait is no string (line 265 raises)
BadRaw(id) ==
    [NoFields EXCEPT !.author_portrait = PyInt(id), !.cmtid = PyInt(id)]

(***************************************************************************)
(* Bounds of the pager and of the run                                      *)
(***************************************************************************)
MaxLimit    == 41   \* a direct call of fetch_reviews_api: limit in 1..MaxLimit
MaxCapSteps == 4    \* main(): the slider positions modelled, 10..10*MaxCapSteps
MaxShort    == 1    \* a page holds 0..MaxShort records, or a batch, or one less
MaxBad      == 1    \* the records 1..MaxBad of a page may fail to normalise
MaxElements == 2    \* the review elements the browser page shows

\* line 140
batch_size == 20
\* line 444: st.slider("...", 10, 1000, 100, 10)
SliderMin  == 10
SliderMax  == 1000
SliderStep == 10

Caps == {c \in SliderMin..SliderMax :
            /\ (c - SliderMin) % SliderStep = 0
            /\ c <= SliderMin + (MaxCapSteps - 1) * SliderStep}

Min(a, b) == IF a < b THEN a ELSE b

PageLens == (0..MaxShort) \cup {batch_size - 1, batch_size}

\* the ratings list of n records the server answers a request at offset off
\* with, the records at the positions bad failing to normalise
Page(off, n, bad) ==
    [i \in 1..n |-> IF i \in bad THEN BadRaw(off + i) ELSE GoodRaw(off + i)]

RECURSIVE ParsedPage_StopAtFailure(_)
ParsedPage_StopAtFailure(ratings) ==
    IF ratings = << >> THEN << >>
    ELSE LET review == parse_review(Head(ratings))
         IN  IF review # None
             THEN <<review>> \o ParsedPage_StopAtFailure(Tail(ratings))
             ELSE << >>

\* lines 172-175: the reviews one page appends, in page order
RECURSIVE ParsedPage(_)
ParsedPage(ratings) ==
    IF ratings = << >> THEN << >>
    ELSE LET review == parse_review(Head(ratings))
         IN  (IF review # None THEN <<review>> ELSE << >>) \o ParsedPage(Tail(ratings))

(***************************************************************************)
(* fetch_reviews_api (lines 131-201)                                       *)
(***************************************************************************)
LoopCond_Inclusive(off, lim) == off <= lim

\* line 146
LoopCond(off, lim) == off < lim

\* line 178 divides and multiplies in floating point before int() truncates.
\* For the slider's limits (10..1000) and offsets that are multiples of 20
\* below the limit the result is the floor of 100 * off / lim except at
\* offset 580 of limit 1000, where 0.58 * 100 is 57.99999999999999.
FloatShortfall(off, lim) ==
    IF off = 29 * batch_size /\ lim = SliderMax THEN 1 ELSE 0

ProgressOf_AfterAdvance(off, lim) ==
    Min(100, (((off + batch_size) * 100) \div lim)
             - FloatShortfall(off + batch_size, lim))

\* line 178: min(100, int((offset / limit) * 100))
ProgressOf(off, lim) ==
    Min(100, ((off * 100) \div lim) - FloatShortfall(off, lim))

ApiIdle ==
    /\ limit = 0 /\ offset = 0 /\ all_reviews = << >>
    /\ requests = << >> /\ responses = << >>
    /\ progress_bar = << >> /\ status_text = << >>

\* lines 133-144: the state a call starts in
ApiEnter(lim) ==
    /\ limit' = lim /\ offset' = 0 /\ all_reviews' = << >>
    /\ requests' = << >> /\ responses' = << >>
    /\ progress_bar' = <<0>> /\ status_text' = << >>

\* lines 195-201: leave the loop, show 100 percent and the final count, and
\* return all_reviews
ApiFinish ==
    /\ progress_bar' = Append(progress_bar, 100)
    /\ status_text' = Append(status_text, Len(all_reviews))
    /\ reviews' = all_reviews
    /\ pc' = "after_api"

\* lines 146-158: the loop test holds and the GET is sent
ApiSend ==
    /\ pc = "api_loop"
    /\ LoopCond(offset, limit)
    /\ requests' = Append(requests, offset)
    /\ pc' = "api_wait"
    /\ UNCHANGED <<cfg, limit, offset, all_reviews, responses, reviews,
                   cancelFlag, seleniumCalls, parseVars, analyzeVars, resolveVars,
                   shownVars, sessionVars>>

\* line 146: the loop test fails
ApiLoopExit ==
    /\ pc = "api_loop"
    /\ ~LoopCond(offset, limit)
    /\ ApiFinish
    /\ UNCHANGED <<cfg, limit, offset, all_reviews, requests, responses,
                   cancelFlag, seleniumCalls, parseVars, analyzeVars, resolveVars,
                   sessionVars>>

\* lines 160-185: status 200, no error key, a non-empty ratings list
ApiRecvPage ==
    /\ pc = "api_wait"
    /\ \E n \in PageLens \ {0}, bad \in SUBSET (1..MaxBad) :
          /\ \A i \in bad : i <= n
          /\ LET ratings == Page(offset, n, bad)
             IN  /\ responses' = Append(responses, [kind |-> "ok", ratings |-> ratings])
                 /\ all_reviews' = all_reviews \o ParsedPage(ratings)
    /\ progress_bar' = Append(progress_bar, ProgressOf(offset, limit))
    /\ status_text' = Append(status_text, Len(all_reviews'))
    /\ offset' = offset + batch_size
    /\ pc' = "api_loop"
    /\ UNCHANGED <<cfg, limit, requests, reviews, cancelFlag, seleniumCalls,
                   parseVars, analyzeVars, resolveVars,
                   sessionVars>>

\* lines 167-170: status 200, no error key, an empty ratings list
ApiRecvEmpty ==
    /\ pc = "api_wait"
    /\ responses' = Append(responses, [kind |-> "ok", ratings |-> << >>])
    /\ ApiFinish
    /\ UNCHANGED <<cfg, limit, offset, all_reviews, requests,
                   cancelFlag, seleniumCalls, parseVars, analyzeVars, resolveVars,
                   sessionVars>>

ApiRecvHttpError_Retry ==
    /\ pc = "api_wait"
    /\ responses' = Append(responses, [kind |-> "http", ratings |-> << >>])
    /\ pc' = "api_loop"
    /\ UNCHANGED <<cfg, limit, offset, all_reviews, requests, reviews,
                   cancelFlag, seleniumCalls, parseVars, analyzeVars, resolveVars,
                   shownVars, sessionVars>>

\* lines 187-189: a status other than 200
ApiRecvHttpError ==
    /\ pc = "api_wait"
    /\ responses' = Append(responses, [kind |-> "http", ratings |-> << >>])
    /\ ApiFinish
    /\ UNCHANGED <<cfg, limit, offset, all_reviews, requests,
                   cancelFlag, seleniumCalls, parseVars, analyzeVars, resolveVars,
                   sessionVars>>

\* lines 163-165: status 200 and a truthy error key
ApiRecvProviderError ==
    /\ pc = "api_wait"
    /\ responses' = Append(responses, [kind |-> "provider", ratings |-> << >>])
    /\ ApiFinish
    /\ UNCHANGED <<cfg, limit, offset, all_reviews, requests,
                   cancelFlag, seleniumCalls, parseVars, analyzeVars, resolveVars,
                   sessionVars>>

\* lines 191-193: session.get or response.json raised
ApiRecvException ==
    /\ pc = "api_wait"
    /\ responses' = Append(responses, [kind |-> "exception", ratings |-> << >>])
    /\ ApiFinish
    /\ UNCHANGED <<cfg, limit, offset, all_reviews, requests,
                   cancelFlag, seleniumCalls, parseVars, analyzeVars, resolveVars,
                   sessionVars>>

\* The user asks to cancel while the call runs.  No line of src/app.py reads
\* such a flag: the loop test of line 146 reads offset and limit only.
RaiseCancel ==
    /\ pc \in {"api_loop", "api_wait"}
    /\ ~cancelFlag
    /\ cancelFlag' = TRUE
    /\ UNCHANGED <<pc, cfg, limit, offset, all_reviews, requests, responses,
                   reviews, seleniumCalls, parseVars, analyzeVars, resolveVars,
                   shownVars, sessionVars>>

ApiStep ==
    \/ ApiSend
    \/ ApiLoopExit
    \/ ApiRecvPage
    \/ ApiRecvEmpty
    \/ ApiRecvHttpError
    \/ ApiRecvProviderError
    \/ ApiRecvException
    \/ RaiseCancel

(***************************************************************************)
(* Idle values of the parts a specification does not run                   *)
(***************************************************************************)
NoCfg == [input_method |-> "none", max_reviews |-> 0,
          use_api |-> FALSE, use_selenium |-> FALSE]
NoDf == [rows |-> << >>, time_dtype |-> "object"]
NoAnalysis == [computed |-> FALSE]
NoTrend == [shown |-> FALSE]
NoPair == <<None, None>>

ParseIdle   == raw = NoFields /\ parsed = None
AnalyzeIdle == df = NoDf /\ analysis = NoAnalysis /\ trendShown = NoTrend
ResolveIdle == url = << >> /\ page = [kind |-> "none"] /\ fetches = 0 /\ ids = NoPair
NoSession == [present |-> FALSE]
RunIdle     == /\ cfg = NoCfg /\ ApiIdle /\ reviews = << >>
               /\ cancelFlag = FALSE /\ seleniumCalls = << >>
               /\ session_df = NoSession /\ driver = "none"

(***************************************************************************)
(* SpecApi: one call fetch_reviews_api(shop_id, item_id, limit)            *)
(***************************************************************************)
InitApi ==
    /\ pc = "api_loop"
    /\ cfg = NoCfg
    /\ limit \in 1..MaxLimit
    /\ offset = 0 /\ all_reviews = << >> /\ requests = << >> /\ responses = << >>
    /\ progress_bar = <<0>> /\ status_text = << >>
    /\ reviews = << >> /\ cancelFlag = FALSE /\ seleniumCalls = << >>
    /\ session_df = NoSession /\ driver = "none"
    /\ ParseIdle /\ AnalyzeIdle /\ ResolveIdle

NextApi == ApiStep

SpecApi == InitApi /\ [][NextApi]_vars

(***************************************************************************)
(* main(), lines 490-518 and 638-645: one run of the scraping branch.  The *)
(* branch is entered with start_scraping set and both ids truthy (line     *)
(* 490).  With input method "url" that means product_url is a non-empty    *)
(* string (lines 421-430, 473-476); with input method "manual" (lines      *)
(* 438-440) no line assigns the local product_url.                         *)
(***************************************************************************)
\* lines 348-358: the dict parse_review_element returns for element i
BrowserReview(i) ==
    [username        |-> PyStr(<<"e", DigitChar[(i % 10) + 1]>>),
     time            |-> [k |-> "unknown", n |-> 0],
     rating          |-> PyInt(StarCount),
     comment         |-> EmptyStr,
     variation       |-> EmptyStr,
     seller_response |-> EmptyStr,
     like_count      |-> PyInt(0),
     images_count    |-> PyInt(0),
     source          |-> "selenium"]

\* pd.to_datetime(value, errors='coerce') (line 515): a '%Y-%m-%d %H:%M'
\* string becomes its timestamp, the marker of line 287 becomes NaT
ToDatetime(time) ==
    IF time.k = "ymdhm" THEN [nat |-> FALSE, minute |-> time.n]
    ELSE [nat |-> TRUE, minute |-> 0]

\* lines 510-515: the rows of pd.DataFrame(reviews), one per review in list
\* order, the time column converted
FrameRows(revs) ==
    [i \in 1..Len(revs) |-> [revs[i] EXCEPT !.time = ToDatetime(@)]]

\* a dataset an earlier run stored in st.session_state (line 518)
PreviousSession ==
    [present |-> TRUE,
     rows    |-> FrameRows(<<parse_review(GoodRaw(1)), BrowserReview(0)>>)]

\* lines 490-502: the stored dataset is deleted, reviews starts empty
StartRun ==
    /\ pc = "main_start"
    /\ session_df' = NoSession
    /\ reviews' = << >>
    /\ IF cfg.use_api
       THEN /\ ApiEnter(cfg.max_reviews)
            /\ pc' = "api_loop"
       ELSE /\ pc' = "after_api"
            /\ UNCHANGED <<limit, offset, all_reviews, requests, responses,
                           shownVars>>
    /\ UNCHANGED <<cfg, cancelFlag, seleniumCalls, driver,
                   parseVars, analyzeVars, resolveVars>>

\* line 504: the browser strategy is off, or the cap is reached
SeleniumSkip ==
    /\ pc = "after_api"
    /\ ~(cfg.use_selenium /\ Len(reviews) < cfg.max_reviews)
    /\ pc' = "merged"
    /\ UNCHANGED <<runVars, parseVars, analyzeVars, resolveVars>>

\* line 505 with input method "manual": product_url is read before any
\* assignment, UnboundLocalError leaves main()
SeleniumUnbound ==
    /\ pc = "after_api"
    /\ cfg.use_selenium /\ Len(reviews) < cfg.max_reviews
    /\ cfg.input_method = "manual"
    /\ pc' = "crashed"
    /\ UNCHANGED <<runVars, parseVars, analyzeVars, resolveVars>>

SeleniumCall_FullCap ==
    /\ pc = "after_api"
    /\ cfg.use_selenium /\ Len(reviews) < cfg.max_reviews
    /\ cfg.input_method = "url"
    /\ seleniumCalls' = Append(seleniumCalls, cfg.max_reviews)
    /\ pc' = "selenium"
    /\ UNCHANGED <<cfg, limit, offset, all_reviews, requests, responses, reviews,
                   cancelFlag, shownVars, sessionVars,
                   parseVars, analyzeVars, resolveVars>>

\* lines 504-506: fetch_reviews_selenium(product_url, max_reviews - len(reviews))
SeleniumCall ==
    /\ pc = "after_api"
    /\ cfg.use_selenium /\ Len(reviews) < cfg.max_reviews
    /\ cfg.input_method = "url"
    /\ seleniumCalls' = Append(seleniumCalls, cfg.max_reviews - Len(reviews))
    /\ pc' = "selenium"
    /\ UNCHANGED <<cfg, limit, offset, all_reviews, requests, responses, reviews,
                   cancelFlag, shownVars, sessionVars,
                   parseVars, analyzeVars, resolveVars>>

\* lines 206-224 and 252-257: an import fails or webdriver.Chrome raises, so
\* no session exists; the call returns [] and line 507 extends reviews by it
SeleniumUnavailable ==
    /\ pc = "selenium"
    /\ pc' = "merged"
    /\ UNCHANGED <<runVars, parseVars, analyzeVars, resolveVars>>

\* line 224: webdriver.Chrome(options=chrome_options) creates the session
SeleniumLaunch ==
    /\ pc = "selenium"
    /\ driver' = "open"
    /\ pc' = "selenium_nav"
    /\ UNCHANGED <<cfg, limit, offset, all_reviews, requests, responses, reviews,
                   cancelFlag, seleniumCalls, shownVars, session_df,
                   parseVars, analyzeVars, resolveVars>>

\* lines 225-228: the script ran and the page loaded
SeleniumNavigate ==
    /\ pc = "selenium_nav"
    /\ pc' = "selenium_page"
    /\ UNCHANGED <<runVars, parseVars, analyzeVars, resolveVars>>

\* lines 225-227 and 255-257: execute_script or driver.get raises; the
\* handler of line 255 returns [] and line 249 is not reached
SeleniumNavigateFailed ==
    /\ pc = "selenium_nav"
    /\ pc' = "merged"
    /\ UNCHANGED <<runVars, parseVars, analyzeVars, resolveVars>>

\* lines 235 and 246-250: find_elements raises, the handler of line 246 warns,
\* line 249 quits and the call returns the empty reviews
SeleniumQueryFailed ==
    /\ pc = "selenium_page"
    /\ driver' = "closed"
    /\ pc' = "merged"
    /\ UNCHANGED <<cfg, limit, offset, all_reviews, requests, responses, reviews,
                   cancelFlag, seleniumCalls, shownVars, session_df,
                   parseVars, analyzeVars, resolveVars>>

\* lines 235-250 and 507: of the first max_reviews elements (line 237) k are
\* parsed, in DOM order; line 249 quits, the call returns them and main()
\* extends reviews with them
SeleniumReturn ==
    /\ pc = "selenium_page"
    /\ \E k \in 0..Min(seleniumCalls[Len(seleniumCalls)], MaxElements) :
          reviews' = reviews \o [i \in 1..k |-> BrowserReview(i)]
    /\ driver' = "closed"
    /\ pc' = "merged"
    /\ UNCHANGED <<cfg, limit, offset, all_reviews, requests, responses,
                   cancelFlag, seleniumCalls, shownVars, session_df,
                   parseVars, analyzeVars, resolveVars>>

\* lines 509-518: reviews is non-empty, the frame is built, stored in
\* st.session_state and shown
FinishShown ==
    /\ pc = "merged"
    /\ reviews # << >>
    /\ session_df' = [present |-> TRUE, rows |-> FrameRows(reviews)]
    /\ pc' = "shown"
    /\ UNCHANGED <<cfg, limit, offset, all_reviews, requests, responses, reviews,
                   cancelFlag, seleniumCalls, shownVars, driver,
                   parseVars, analyzeVars, resolveVars>>

\* lines 638-645: reviews is empty, the four hints are shown
FinishEmpty ==
    /\ pc = "merged"
    /\ reviews = << >>
    /\ pc' = "empty"
    /\ UNCHANGED <<runVars, parseVars, analyzeVars, resolveVars>>

Init ==
    /\ pc = "main_start"
    /\ cfg \in [input_method : {"url", "manual"}, max_reviews : Caps,
                use_api : BOOLEAN, use_selenium : BOOLEAN]
    /\ ApiIdle
    /\ reviews = << >> /\ cancelFlag = FALSE /\ seleniumCalls = << >>
    /\ session_df \in {NoSession, PreviousSession} /\ driver = "none"
    /\ ParseIdle /\ AnalyzeIdle /\ ResolveIdle

Next ==
    \/ StartRun
    \/ ApiStep
    \/ SeleniumSkip
    \/ SeleniumUnbound
    \/ SeleniumCall
    \/ SeleniumUnavailable
    \/ SeleniumLaunch
    \/ SeleniumNavigate
    \/ SeleniumNavigateFailed
    \/ SeleniumQueryFailed
    \/ SeleniumReturn
    \/ FinishShown
    \/ FinishEmpty

Spec == Init /\ [][Next]_vars

\* the run has ended: the frame is shown, the hints are shown, or main() raised
RunEnded == pc \in {"shown", "empty", "crashed"}

(***************************************************************************)
(* Claims about fetch_reviews_api                                          *)
(***************************************************************************)
IsFailure(resp) == resp.kind \in {"http", "provider", "exception"}
IsEmptyPage(resp) == resp.kind = "ok" /\ resp.ratings = << >>

\* the reviews of the pages completed, in order
RECURSIVE CompletedReviews(_)
CompletedReviews(resps) ==
    IF resps = << >> THEN << >>
    ELSE LET kept == SelectSeq(Head(resps).ratings, LAMBDA r : parse_review(r) # None)
         IN  [i \in 1..Len(kept) |-> parse_review(kept[i])]
             \o CompletedReviews(Tail(resps))

\* C1: one call issues at most ceil(limit/20) requests, at the offsets 0, 20,
\* 40, ... in this order, and issues no request after the first page whose
\* ratings list is empty, also when offset + 20 is still below limit.
C1_RequestBound ==
    /\ (Len(requests) - 1) * batch_size < limit
    /\ \A i \in 1..Len(requests) : requests[i] = (i - 1) * batch_size
    /\ \A i \in 1..Len(responses) :
          IsEmptyPage(responses[i]) => i = Len(requests) /\ pc = "after_api"

\* an empty page ended the call although offset + 20 is below limit
C1_Witness ==
    /\ pc = "after_api"
    /\ Len(responses) >= 2
    /\ IsEmptyPage(responses[Len(responses)])
    /\ offset + batch_size < limit

\* C2: after a non-success status, a provider error payload or a raised
\* request failure no further request is issued (no retry), and the call
\* returns exactly the reviews of the pages completed before the failure.
C2_FailureStops ==
    /\ \A i \in 1..Len(responses) :
          IsFailure(responses[i]) => i = Len(requests) /\ pc = "after_api"
    /\ (pc = "after_api" /\ responses # << >> /\ IsFailure(responses[Len(responses)]))
          => reviews = CompletedReviews(responses)

\* a failure ended the call after a completed page that had dropped a record
C2_Witness ==
    /\ pc = "after_api"
    /\ Len(responses) >= 2
    /\ IsFailure(responses[Len(responses)])
    /\ reviews # << >>
    /\ Len(reviews) < Len(responses[1].ratings)
    /\ offset < limit

\* C3: a cancellation flag raised in the middle of a run is observed between
\* pages: once a page has completed and the flag is raised, the loop test
\* requests no further page (and the result is the pages completed so far).
C3_CancelObservedBetweenPages ==
    [][(cancelFlag /\ pc = "api_loop" /\ responses # << >>)
          => requests' = requests]_vars

\* the records of a page that fail to normalise
Failing(ratings) == {i \in 1..Len(ratings) : parse_review(ratings[i]) = None}

RECURSIVE KeptCount(_)
KeptCount(resps) ==
    IF resps = << >> THEN 0
    ELSE (Len(Head(resps).ratings) - Cardinality(Failing(Head(resps).ratings)))
         + KeptCount(Tail(resps))

\* C11: of a fetched page of n records of which k fail to normalise, exactly
\* the n - k normalised reviews are appended, in page order (the page is not
\* cut at the first failing record), and the pager goes on to the next
\* offset as if every record had succeeded.
C11_FailedRecordsSkipped ==
    /\ all_reviews = CompletedReviews(responses)
    /\ Len(all_reviews) = KeptCount(responses)
    /\ offset = batch_size * Cardinality({i \in 1..Len(responses) :
                                             /\ responses[i].kind = "ok"
                                             /\ responses[i].ratings # << >>})
    /\ pc = "api_wait" => requests[Len(requests)] = offset

\* the first record of a full page failed, the other nineteen were appended
\* and the next page was requested at offset 20
C11_Witness ==
    /\ pc = "api_wait"
    /\ Len(responses) = 1
    /\ Len(responses[1].ratings) = batch_size
    /\ Failing(responses[1].ratings) = {1}
    /\ Len(all_reviews) = batch_size - 1
    /\ all_reviews[1] = parse_review(responses[1].ratings[2])
    /\ requests = <<0, batch_size>>

\* the pages processed so far: the responses that carried records
PagesDone == Cardinality({i \in 1..Len(responses) : /\ responses[i].kind = "ok"
                                                    /\ responses[i].ratings # << >>})

\* the reports line up with the pages: one percent at line 143, a percent and
\* a count per processed page, and the closing pair of lines 195-196
ReportsPerPage ==
    /\ Len(status_text) = PagesDone + (IF pc = "after_api" THEN 1 ELSE 0)
    /\ Len(progress_bar) = Len(status_text) + 1
    /\ \A i \in 1..PagesDone :
          status_text[i] = Len(CompletedReviews(SubSeq(responses, 1, i)))

\* C14 as stated: after every processed page the pager reports the count of
\* reviews collected so far and the integer percentage of offset/limit capped
\* at 100, offset counting the records requested up to and including that
\* page; the percent never decreases and never exceeds 100.
C14_PercentCountsThisPage ==
    /\ ReportsPerPage
    /\ \A i \in 1..PagesDone :
          progress_bar[i + 1] = Min(100, ((batch_size * i) * 100) \div limit)
    /\ \A i \in 1..(Len(progress_bar) - 1) : progress_bar[i] <= progress_bar[i + 1]
    /\ \A i \in 1..Len(progress_bar) : progress_bar[i] <= 100

\* C14, amended: the percent reported after a page is that of the offset the
\* page was requested at, which counts the records requested before that
\* page (0 after the first page); the rest as stated.
C14_PercentCountsEarlierPages ==
    /\ ReportsPerPage
    /\ \A i \in 1..PagesDone :
          /\ requests[i] = batch_size * (i - 1)
          /\ progress_bar[i + 1] = Min(100, (requests[i] * 100) \div limit)
    /\ \A i \in 1..(Len(progress_bar) - 1) : progress_bar[i] <= progress_bar[i + 1]
    /\ \A i \in 1..Len(progress_bar) : progress_bar[i] <= 100

\* two pages were processed: 0 percent was reported after the first, a
\* larger percent below 100 after the second, with a larger count
C14_Witness ==
    /\ pc = "api_loop"
    /\ PagesDone = 2
    /\ progress_bar[2] = 0
    /\ progress_bar[3] > 0 /\ progress_bar[3] < 100
    /\ status_text[1] > 0 /\ status_text[2] > status_text[1]

(***************************************************************************)
(* Claims about the run of main()                                          *)
(***************************************************************************)
ApiRunning == pc \in {"api_loop", "api_wait"}

\* C4 as stated: the browser scraper is invoked at most once, only after the
\* API pager has returned, only with the browser strategy enabled, fewer
\* reviews than the cap and a product URL, and is asked for the shortfall.
C4_OnlyAfterApiReturned ==
    /\ Len(seleniumCalls) <= 1
    /\ seleniumCalls # << >> =>
          /\ cfg.use_api /\ ~ApiRunning /\ pc # "main_start"
          /\ cfg.use_selenium
          /\ cfg.input_method = "url"
          /\ Len(all_reviews) < cfg.max_reviews
          /\ seleniumCalls[1] = cfg.max_reviews - Len(all_reviews)

\* C4 amended: ... only after the API pager has returned, or in a run whose
\* API strategy is disabled (the pager is then never called) ...
C4_NeverBeforeOrDuringApi ==
    /\ Len(seleniumCalls) <= 1
    /\ seleniumCalls # << >> =>
          /\ ~ApiRunning /\ pc # "main_start"
          /\ cfg.use_api \/ (requests = << >> /\ all_reviews = << >>)
          /\ cfg.use_selenium
          /\ cfg.input_method = "url"
          /\ Len(all_reviews) < cfg.max_reviews
          /\ seleniumCalls[1] = cfg.max_reviews - Len(all_reviews)

\* the browser scraper was called after a pager that had collected reviews
\* and was stopped by a failure
C4_Witness ==
    /\ pc = "selenium"
    /\ cfg.use_api
    /\ all_reviews # << >>
    /\ IsFailure(responses[Len(responses)])
    /\ seleniumCalls = <<cfg.max_reviews - Len(all_reviews)>>

\* C5: with the product given as an id pair (no URL), the browser strategy
\* enabled and the API result below the cap, the run does not fail: it ends
\* with the pager's reviews shown or with the empty terminal state.
C5_ManualIdsRunDoesNotFail ==
    (/\ cfg.input_method = "manual" /\ cfg.use_selenium
     /\ Len(all_reviews) < cfg.max_reviews /\ RunEnded)
        => pc \in {"shown", "empty"} /\ reviews = all_reviews

\* C6: at the end of a run the merged reviews never outnumber the cap.
C6_CapRespected ==
    pc \in {"merged", "shown", "empty"} => Len(reviews) <= cfg.max_reviews

\* the rows of the stored dataset, none when the key is absent
DatasetRows(session) == IF session.present THEN session.rows ELSE << >>

\* the first k elements of the page, in DOM order
Elements(k) == [i \in 1..k |-> BrowserReview(i)]

\* what the run fetched, in fetch order: the reviews of the API pages in the
\* order of their requests, then k browser reviews
FetchedInRun(k) == CompletedReviews(responses) \o Elements(k)

IsPrefix(a, b) == Len(a) <= Len(b) /\ SubSeq(b, 1, Len(a)) = a

\* C12: the dataset available after a run consists of exactly the reviews
\* fetched in that run, in fetch order (API pages by offset and record order,
\* then browser elements in DOM order), and holds no row of an earlier run.
C12_DatasetIsThisRun ==
    RunEnded =>
        \E k \in 0..MaxElements :
            /\ reviews = FetchedInRun(k)
            /\ DatasetRows(session_df) = FrameRows(FetchedInRun(k))

\* C12 where main() returns normally: the dataset is the run's reviews in
\* fetch order, and absent when the run fetched none
DatasetWhenRunReturns ==
    pc \in {"shown", "empty"} =>
        \E k \in 0..MaxElements :
            /\ reviews = FetchedInRun(k)
            /\ DatasetRows(session_df) = FrameRows(FetchedInRun(k))
            /\ session_df.present <=> pc = "shown"

\* C12, during the run: a step that changes all_reviews or reviews appends to
\* it (line 498 starts reviews empty, line 500 assigns it the pager's list)
ReviewsAppendOnly ==
    [][/\ IsPrefix(all_reviews, all_reviews') \/ pc = "main_start"
       /\ IsPrefix(reviews, reviews') \/ pc = "main_start"]_vars

\* C13: a call of fetch_reviews_selenium that created a browser session has
\* closed it when the call has returned, whichever way the call ended.
C13_SessionClosedOnReturn ==
    pc \in {"merged", "shown", "empty"} => driver # "open"

\* C13 for the calls that reach line 231: normal completion and a failure of
\* find_elements both pass line 249
SessionClosedAfterPage ==
    [][pc = "selenium_page" => driver' = "closed"]_vars

(***************************************************************************)
(* SpecParse: one call parse_review(rating_data).  Every key is missing or *)
(* holds one of a few values of the feed; the portrait may be malformed.   *)
(***************************************************************************)
SampleCtime == 1700000000
SampleCmtid == 1234507

RawRecords ==
    [author_username : {Absent, EmptyStr, NullStr, PyStr(<<"a", "b">>), PyStr(<<"a">>)},
     author_portrait : {Absent, PyStr(<<"x", "/", "c", "d", ".", "j">>),
                        PyStr(<<"x", "/", ".", "j">>), PyInt(1)},
     cmtid           : {Absent, PyInt(SampleCmtid)},
     rating_star     : {Absent, PyInt(StarCount)},
     comment         : {Absent, NullStr, PyStr(<<"o", "k">>)},
     detailed_rating : {Absent, PyList(<< >>),
                        PyList(<<PyDict([comment |-> PyStr(<<"d", "r">>)])>>)},
     ctime           : {Absent, PyInt(SampleCtime), BigInt},
     product_items   : {Absent, PyList(<< >>),
                        PyList(<<PyDict([model_name |-> PyStr(<<"m">>)])>>)},
     seller_reply    : {Absent, PyDict([comment |-> PyStr(<<"s", "r">>)])},
     like_count      : {Absent, PyInt(3)},
     images          : {Absent, PyList(<<PyStr(<<"i">>)>>)}]

InitParse ==
    /\ pc = "parse_call"
    /\ raw \in RawRecords
    /\ parsed = None
    /\ RunIdle /\ AnalyzeIdle /\ ResolveIdle

\* lines 259-315
ParseReview ==
    /\ pc = "parse_call"
    /\ parsed' = parse_review(raw)
    /\ pc' = "parse_done"
    /\ UNCHANGED <<runVars, raw, analyzeVars, resolveVars>>

NextParse == ParseReview

SpecParse == InitParse /\ [][NextParse]_vars

\* C7: whatever subset of the optional keys is missing, parse_review returns
\* (it does not raise) either None or a review with a non-empty username, a
\* comment string (possibly empty) and rating, like_count and images_count 0
\* when their key is missing.
C7_ParseTotal ==
    pc = "parse_done" =>
        \/ parsed = None
        \/ /\ parsed.username.t = "str" /\ parsed.username.v # << >>
           /\ parsed.comment.t = "str"
           /\ raw.rating_star = Absent => parsed.rating = PyInt(0)
           /\ raw.like_count = Absent => parsed.like_count = PyInt(0)
           /\ raw.images = Absent => parsed.images_count = PyInt(0)

\* every key is missing and a review with the synthesised username is returned
C7_Witness ==
    /\ pc = "parse_done"
    /\ raw = NoFields
    /\ parsed # None
    /\ parsed.username = PyStr(UserPrefix \o <<"0", "0", "0", "0">>)
    /\ parsed.comment = EmptyStr
    /\ parsed.time.k = "unknown"

(***************************************************************************)
(* SpecAnalyze: the frame main() builds from a non-empty reviews list      *)
(* (lines 509-518), the daily trend it draws (lines 562-573) and           *)
(* analyze_reviews on that frame (lines 363-402).                          *)
(***************************************************************************)
MaxRows == 4   \* the reviews of an analysed run: 1..MaxRows
MaxDays == 2   \* the days their timestamps fall on: 1..MaxDays

MinutesPerDay == 1440

\* the ratings of the analysed reviews: 0 (rating_star missing) and 3..5
RatingValues == {0} \cup {r \in 1..StarCount : r + 2 >= StarCount}

\* a review as parse_review returns it, with the given rating and time
SampleReview(rating, time) ==
    [username        |-> PyStr(<<"a", "b">>),
     time            |-> time,
     rating          |-> PyInt(rating),
     comment         |-> PyStr(<<"o", "k">>),
     variation       |-> EmptyStr,
     seller_response |-> EmptyStr,
     like_count      |-> PyInt(0),
     images_count    |-> PyInt(0),
     source          |-> "api"]

\* the time parse_review writes for a ctime at noon of day d (line 283)
TimeOnDay(d) == [k |-> "ymdhm", n |-> d * MinutesPerDay + (MinutesPerDay \div 2)]
\* the marker of line 287
UnknownTime == [k |-> "unknown", n |-> 0]

\* the reviews list of a run: n reviews, their ratings, and the positions
\* whose ctime was missing
ReviewList(n, ratings, unknown) ==
    [i \in 1..n |->
        SampleReview(ratings[i],
                     IF i \in unknown THEN UnknownTime
                     ELSE TimeOnDay((i % MaxDays) + 1))]

\* Series.dt.date of a timestamp that is not NaT
DateOf(ts) == ts.minute \div MinutesPerDay

\* Series.value_counts(): the count of each value that occurs
ValueCounts(values) ==
    [v \in {values[i] : i \in 1..Len(values)} |->
        Cardinality({i \in 1..Len(values) : values[i] = v})]

\* value_counts() of the date column: NaT is dropped (dropna=True)
DateCounts(rows) ==
    LET dated == SelectSeq(rows, LAMBDA r : ~r.time.nat)
    IN  ValueCounts([i \in 1..Len(dated) |-> DateOf(dated[i].time)])

RECURSIVE SumRatings(_)
SumRatings(rows) ==
    IF rows = << >> THEN 0 ELSE Head(rows).rating + SumRatings(Tail(rows))

TrendGuard_AllParse(rows) == \A i \in 1..Len(rows) : ~rows[i].time.nat

\* line 563: not reviews_df['time'].isna().all()
TrendGuard(rows) == ~(\A i \in 1..Len(rows) : rows[i].time.nat)

InitAnalyze ==
    /\ pc = "frame_build"
    /\ \E n \in 1..MaxRows :
          \E ratings \in [1..n -> RatingValues], unknown \in SUBSET (1..n) :
              reviews = ReviewList(n, ratings, unknown)
    /\ cfg = NoCfg /\ ApiIdle /\ cancelFlag = FALSE /\ seleniumCalls = << >>
    /\ session_df = NoSession /\ driver = "none"
    /\ ParseIdle /\ AnalyzeIdle /\ ResolveIdle

\* lines 509-518: the frame, its time column converted
BuildFrame ==
    /\ pc = "frame_build"
    /\ reviews # << >>
    /\ df' = [rows |-> [i \in 1..Len(reviews) |->
                          [rating |-> reviews[i].rating.v,
                           time   |-> ToDatetime(reviews[i].time)]],
              time_dtype |-> "datetime64"]
    /\ pc' = "frame_ready"
    /\ UNCHANGED <<runVars, parseVars, analysis, trendShown, resolveVars>>

\* lines 562-573: the daily trend chart
ShowTrend ==
    /\ pc = "frame_ready"
    /\ trendShown' = IF TrendGuard(df.rows)
                     THEN [shown |-> TRUE, counts |-> DateCounts(df.rows)]
                     ELSE NoTrend
    /\ pc' = "trend_done"
    /\ UNCHANGED <<runVars, parseVars, df, analysis, resolveVars>>

\* lines 363-382: analyze_reviews(reviews_df); avg_rating is kept as the sum
\* and the count it divides
AnalyzeReviews ==
    /\ pc = "trend_done"
    /\ df.rows # << >>
    /\ analysis' =
          [computed            |-> TRUE,
           total_reviews       |-> Len(df.rows),
           rating_sum          |-> SumRatings(df.rows),
           rating_distribution |-> ValueCounts([i \in 1..Len(df.rows) |-> df.rows[i].rating]),
           has_daily_trend     |-> df.time_dtype = "datetime64",
           daily_trend         |-> IF df.time_dtype = "datetime64"
                                   THEN DateCounts(df.rows) ELSE << >>]
    /\ pc' = "analyzed"
    /\ UNCHANGED <<runVars, parseVars, df, trendShown, resolveVars>>

NextAnalyze ==
    \/ BuildFrame
    \/ ShowTrend
    \/ AnalyzeReviews

SpecAnalyze == InitAnalyze /\ [][NextAnalyze]_vars

Ratings == [i \in 1..Len(reviews) |-> reviews[i].rating.v]
Parses(i) == reviews[i].time.k = "ymdhm"
CountOf(r) == Cardinality({i \in 1..Len(reviews) : Ratings[i] = r})

\* C8: the rating distribution counts only the ratings 1..5 and has no entry
\* for rating 0, while avg_rating is the mean over all reviews, those rated 0
\* included.
C8_DistributionExcludesZero ==
    analysis.computed =>
        /\ DOMAIN analysis.rating_distribution \subseteq 1..StarCount
        /\ \A r \in DOMAIN analysis.rating_distribution :
              analysis.rating_distribution[r] = CountOf(r)
        /\ analysis.rating_sum = SumRatings(df.rows)
        /\ analysis.total_reviews = Len(reviews)

MaxFrags == 3   \* a url is made of at most MaxFrags of the fragments below

Digits == {DigitChar[i] : i \in 1..Len(DigitChar)}
Whitespace == {" "}

\* lines 102-106: each pattern is literal (\d+) literal (\d+)
DotPattern   == [lit1 |-> <<"i", ".">>, lit2 |-> <<".">>]
ItemPattern  == [lit1 |-> <<"i", "t", "e", "m", "/">>, lit2 |-> <<"/">>]
QueryPattern == [lit1 |-> <<"s", "h", "o", "p", "i", "d", "=">>,
                 lit2 |-> <<"&", "i", "t", "e", "m", "i", "d", "=">>]

patterns_ItemFirst == <<ItemPattern, DotPattern, QueryPattern>>

\* lines 102-106
patterns == <<DotPattern, ItemPattern, QueryPattern>>

\* the literal lit stands in s at position p
LitAt(s, p, lit) ==
    /\ p + Len(lit) - 1 <= Len(s)
    /\ \A i \in 1..Len(lit) : s[p + i - 1] = lit[i]

\* \d+ or \s* at position p: the longest run of characters of the class
RECURSIVE RunAt(_, _, _)
RunAt(s, p, class) ==
    IF p <= Len(s) /\ s[p] \in class THEN <<s[p]>> \o RunAt(s, p + 1, class)
    ELSE << >>

\* re.match of literal (\d+) literal (\d+) at position p.  \d+ is greedy and
\* the second literal starts with no digit, so only the longest run can match
MatchAt(s, p, pat) ==
    LET p1 == p + Len(pat.lit1)
        g1 == RunAt(s, p1, Digits)
        p2 == p1 + Len(g1)
        p3 == p2 + Len(pat.lit2)
        g2 == RunAt(s, p3, Digits)
    IN  IF LitAt(s, p, pat.lit1) /\ g1 # << >> /\ LitAt(s, p2, pat.lit2) /\ g2 # << >>
        THEN [ok |-> TRUE, groups |-> <<PyStr(g1), PyStr(g2)>>]
        ELSE [ok |-> FALSE, groups |-> <<None, None>>]

\* re.search(pattern, s): the match at the leftmost position that has one
Search(s, pat) ==
    LET hits == {p \in 1..Len(s) : MatchAt(s, p, pat).ok}
    IN  IF hits = {} THEN [ok |-> FALSE, groups |-> <<None, None>>]
        ELSE MatchAt(s, CHOOSE p \in hits : \A q \in hits : p <= q, pat)

\* lines 108-112: the groups of the first pattern that matches, if one does
RECURSIVE FirstMatch(_, _)
FirstMatch(s, pats) ==
    IF pats = << >> THEN [ok |-> FALSE, groups |-> <<None, None>>]
    ELSE LET m == Search(s, Head(pats))
         IN  IF m.ok THEN m ELSE FirstMatch(s, Tail(pats))

\* re.match of "key"\s*:\s*(\d+) at position p (lines 119-120)
KeyMatchAt(s, p, key) ==
    LET lit == <<"\"">> \o key \o <<"\"">>
        p1  == p + Len(lit)
        p2  == p1 + Len(RunAt(s, p1, Whitespace))
        p3  == p2 + 1
        p4  == p3 + Len(RunAt(s, p3, Whitespace))
        g   == RunAt(s, p4, Digits)
    IN  IF LitAt(s, p, lit) /\ LitAt(s, p2, <<":">>) /\ g # << >>
        THEN [ok |-> TRUE, group |-> PyStr(g)]
        ELSE [ok |-> FALSE, group |-> None]

\* re.search(r'"key"\s*:\s*(\d+)', html)
KeySearch(s, key) ==
    LET hits == {p \in 1..Len(s) : KeyMatchAt(s, p, key).ok}
    IN  IF hits = {} THEN [ok |-> FALSE, group |-> None]
        ELSE KeyMatchAt(s, CHOOSE p \in hits : \A q \in hits : p <= q, key)

ShopKey == <<"s", "h", "o", "p", "i", "d">>
ItemKey == <<"i", "t", "e", "m", "i", "d">>

HttpPrefix == <<"h", "t", "t", "p">>

\* line 115: url.startswith('http')
StartsWithHttp(s) == LitAt(s, 1, HttpPrefix)

\* lines 118-125: both keys must be found in the body
BodyPair(html) ==
    LET shop_id_match == KeySearch(html, ShopKey)
        item_id_match == KeySearch(html, ItemKey)
    IN  IF shop_id_match.ok /\ item_id_match.ok
        THEN <<shop_id_match.group, item_id_match.group>>
        ELSE NoPair

\* the fragments the urls are made of
Fragments ==
    { HttpPrefix \o <<":">>,
      <<"i", ".", "1", "2", ".", "3", "4">>,
      <<"i", "t", "e", "m", "/", "5", "/", "6">>,
      <<"s", "h", "o", "p", "i", "d", "=", "7", "&", "i", "t", "e", "m", "i", "d", "=", "8">>,
      <<"i", ".", "9">>,
      <<".">>, <<"/">>, <<"0">>, <<"x">> }

\* the bodies GET url may answer with
Bodies ==
    { << >>,
      <<"\"", "s", "h", "o", "p", "i", "d", "\"", ":", "1", "2", ",",
        "\"", "i", "t", "e", "m", "i", "d", "\"", ":", "3", "4">>,
      <<"\"", "i", "t", "e", "m", "i", "d", "\"", " ", ":", " ", "5", "6", " ",
        "\"", "s", "h", "o", "p", "i", "d", "\"", ":", " ", "7">>,
      <<"\"", "s", "h", "o", "p", "i", "d", "\"", ":", "8">>,
      <<"\"", "i", "t", "e", "m", "i", "d", "\"", ":", "9">>,
      <<"s", "h", "o", "p", "i", "d", ":", "1", "\"", "i", "t", "e", "m", "i", "d", "\"", ":", "x">> }

RECURSIVE Concat(_)
Concat(frags) == IF frags = << >> THEN << >> ELSE Head(frags) \o Concat(Tail(frags))

InitResolve ==
    /\ pc = "resolve_call"
    /\ \E n \in 0..MaxFrags : \E frags \in [1..n -> Fragments] : url = Concat(frags)
    /\ page \in {[kind |-> "raise", text |-> << >>]}
                  \cup {[kind |-> "body", text |-> b] : b \in Bodies}
    /\ fetches = 0
    /\ ids = NoPair
    /\ RunIdle /\ ParseIdle /\ AnalyzeIdle

\* lines 108-112: a pattern matches, its groups are returned
ResolveByPattern ==
    /\ pc = "resolve_call"
    /\ FirstMatch(url, patterns).ok
    /\ ids' = FirstMatch(url, patterns).groups
    /\ pc' = "resolve_done"
    /\ UNCHANGED <<runVars, parseVars, analyzeVars, url, page, fetches>>

\* lines 115 and 125: no pattern matches and url does not start with 'http'
ResolveNoFetch ==
    /\ pc = "resolve_call"
    /\ ~FirstMatch(url, patterns).ok
    /\ ~StartsWithHttp(url)
    /\ ids' = NoPair
    /\ pc' = "resolve_done"
    /\ UNCHANGED <<runVars, parseVars, analyzeVars, url, page, fetches>>

\* lines 115-116: no pattern matches, url starts with 'http', the page is requested
ResolveFetch ==
    /\ pc = "resolve_call"
    /\ ~FirstMatch(url, patterns).ok
    /\ StartsWithHttp(url)
    /\ fetches' = fetches + 1
    /\ pc' = "resolve_wait"
    /\ UNCHANGED <<runVars, parseVars, analyzeVars, url, page, ids>>

\* lines 118-125: the body arrived
ResolveBody ==
    /\ pc = "resolve_wait"
    /\ page.kind = "body"
    /\ ids' = BodyPair(page.text)
    /\ pc' = "resolve_done"
    /\ UNCHANGED <<runVars, parseVars, analyzeVars, url, page, fetches>>

\* lines 127-129: session.get raised
ResolveFetchFailed ==
    /\ pc = "resolve_wait"
    /\ page.kind = "raise"
    /\ ids' = NoPair
    /\ pc' = "resolve_done"
    /\ UNCHANGED <<runVars, parseVars, analyzeVars, url, page, fetches>>

NextResolve ==
    \/ ResolveByPattern
    \/ ResolveNoFetch
    \/ ResolveFetch
    \/ ResolveBody
    \/ ResolveFetchFailed

SpecResolve == InitResolve /\ [][NextResolve]_vars

AllDigits(s, from, to) == \A i \in from..to : s[i] \in Digits

\* the occurrences of literal digits literal digits in s: <<position, first
\* group, second group>>, the second group running up to a non-digit
Occurrences(s, pat) ==
    {occ \in UNION {UNION {{<<p, SubSeq(s, p + Len(pat.lit1), e1),
                               SubSeq(s, e1 + Len(pat.lit2) + 1, e2)>> :
                             e2 \in {e \in (e1 + Len(pat.lit2) + 1)..Len(s) :
                                        /\ AllDigits(s, e1 + Len(pat.lit2) + 1, e)
                                        /\ e = Len(s) \/ s[e + 1] \notin Digits}} :
                           e1 \in {e \in (p + Len(pat.lit1))..Len(s) :
                                      /\ AllDigits(s, p + Len(pat.lit1), e)
                                      /\ LitAt(s, e + 1, pat.lit2)}} :
                    p \in {q \in 1..Len(s) : LitAt(s, q, pat.lit1)}} : TRUE}

\* the pair of the leftmost occurrence
LeftmostPair(occs) ==
    LET occ == CHOOSE o \in occs : \A o2 \in occs : o[1] <= o2[1]
    IN  <<PyStr(occ[2]), PyStr(occ[3])>>

\* C10: the pair captured by the first of the patterns i.<shop>.<item>,
\* item/<shop>/<item>, shopid=<shop>&itemid=<item> that matches is returned;
\* only when none matches and the input starts with http is the page
\* fetched, once, and then both keys must be found in the body; in every
\* other case, a failed fetch included, the pair (None, None) is returned,
\* never a pair with exactly one component.
C10_FirstPatternWins ==
    LET dot   == Occurrences(url, DotPattern)
        item  == Occurrences(url, ItemPattern)
        query == Occurrences(url, QueryPattern)
        none  == dot = {} /\ item = {} /\ query = {}
        shop_id_match == KeySearch(page.text, ShopKey)
        item_id_match == KeySearch(page.text, ItemKey)
    IN  /\ fetches <= 1
        /\ fetches = 1 => none /\ StartsWithHttp(url)
        /\ pc = "resolve_done" =>
              /\ (ids[1] = None) <=> (ids[2] = None)
              /\ dot # {} => ids = LeftmostPair(dot)
              /\ dot = {} /\ item # {} => ids = LeftmostPair(item)
              /\ dot = {} /\ item = {} /\ query # {} => ids = LeftmostPair(query)
              /\ ~none => fetches = 0
              /\ none /\ ~StartsWithHttp(url) => fetches = 0 /\ ids = NoPair
              /\ none /\ StartsWithHttp(url) =>
                    /\ fetches = 1
                    /\ page.kind = "raise" => ids = NoPair
                    /\ page.kind = "body" =>
                          IF shop_id_match.ok /\ item_id_match.ok
                          THEN ids = <<shop_id_match.group, item_id_match.group>>
                          ELSE ids = NoPair

\* the url holds item/5/6 before i.12.34 and the pair of the first pattern,
\* (12, 34), is returned without a fetch
C10_Witness ==
    /\ pc = "resolve_done"
    /\ Occurrences(url, ItemPattern) # {}
    /\ \E d \in Occurrences(url, DotPattern) :
          \E i \in Occurrences(url, ItemPattern) : i[1] < d[1]
    /\ ids = <<PyStr(<<"1", "2">>), PyStr(<<"3", "4">>)>>
    /\ fetches = 0

=============================================================================
